---- MODULE Spec2Model ----
(***************************************************************************)
(* Model of frontend/src-tauri/src/lib.rs: the two Tauri commands          *)
(* get_app_version and get_app_name, and run(), which builds the           *)
(* application (three plugins, one invoke handler) and hands control to    *)
(* the framework's blocking run call, whose Result is unwrapped by expect. *)
(*                                                                         *)
(* Strings are sequences of one-character strings, so that String          *)
(* construction (to_string) is a copy that can be observed half way.       *)
(***************************************************************************)
EXTENDS Integers, Sequences, FiniteSets, TLC

VARIABLES
    pc,        \* position of run(): the step of lines 17-23 executed next
    builder,   \* the tauri::Builder being composed by run()
    runCalls,  \* how many times Builder::run was invoked
    result,    \* the Result returned by Builder::run, NoResult before
    process,   \* the process: alive or terminated, exit status, panic message
    version,   \* the value of CARGO_PKG_VERSION baked in at build time
    calls,     \* per front-end caller: the command invocation in flight
    started,   \* number of command invocations made so far
    log        \* responses delivered to the front end, oldest first

vars == <<pc, builder, runCalls, result, process, version, calls, started, log>>

\* ---------------------------------------------------------------- bounds
NumCallers == 2
MaxCalls == 3

Callers == 1..NumCallers

\* ------------------------------------------------------- build-time data
\* Package versions the crate may be built with: Cargo only accepts a
\* semantic version in the manifest's package.version.
PackageVersions ==
    { <<"0", ".", "1", ".", "0">>,
      <<"1", ".", "2", ".", "0", "-", "r", "c">> }

\* env!("CARGO_PKG_VERSION"): expanded at compile time to the string literal.
CARGO_PKG_VERSION == version

\* ------------------------------------------------------------- commands
\* A get_app_version that re-derives a shorter string once a response exists.
get_app_version_drift ==
    IF Len(log) > 0 THEN SubSeq(CARGO_PKG_VERSION, 1, 3) ELSE CARGO_PKG_VERSION

\* A get_app_version that drops the last byte of the version.
get_app_version_short ==
    SubSeq(CARGO_PKG_VERSION, 1, Len(CARGO_PKG_VERSION) - 1)

\* Body of get_app_version: the &'static str that is turned into a String.
get_app_version == CARGO_PKG_VERSION

\* A get_app_name whose value depends on the calls made before.
get_app_name_history ==
    IF Len(log) > 0
      THEN <<"T", "r", "i", "F", "l", "o", "w">>
      ELSE <<"T", "r", "i", "F", "l", "o", "w", " ", "A", "I">>

\* Body of get_app_name: the literal "TriFlow AI".
get_app_name == <<"T", "r", "i", "F", "l", "o", "w", " ", "A", "I">>

\* A handler that still exposes the project template's greet command.
generate_handler_greet == {"greet", "get_app_version", "get_app_name"}

\* tauri::generate_handler![get_app_version, get_app_name]: the commands the
\* generated handler dispatches.
generate_handler == {"get_app_version", "get_app_name"}

\* Dispatch of the generated handler: command name to function body.
Dispatch(cmd) ==
    IF cmd = "get_app_version" THEN get_app_version ELSE get_app_name

\* str::to_string, one byte of the copy into the freshly allocated String.
to_string(buf, s) == Append(buf, s[Len(buf) + 1])

\* ------------------------------------------------------------ run() data
\* The plugins run() attaches, by crate.
tauri_plugin_opener == "opener"
tauri_plugin_shell == "shell"
tauri_plugin_http == "http"

\* tauri::Builder::default()
Builder_default == [plugins |-> <<>>, invoke_handler |-> {}, handlers |-> 0]

\* Builder::plugin
plugin(b, p) == [b EXCEPT !.plugins = Append(@, p)]

\* Builder::invoke_handler: installs the handler, replacing a previous one.
invoke_handler(b, cmds) ==
    [b EXCEPT !.invoke_handler = cmds, !.handlers = @ + 1]

\* Errors the framework's run call may report.
Errors == {"Setup", "Runtime"}

\* The message given to expect at line 23.
EXPECT_MSG == "error while running tauri application"

\* A method chain that calls run before the HTTP plugin and the handler.
NextPcEarlyRun(p) ==
    CASE p = "default" -> "plugin_opener"
      [] p = "plugin_opener" -> "plugin_shell"
      [] p = "plugin_shell" -> "run"
      [] p = "run" -> "running"
      [] p = "running" -> "expect"
      [] p = "expect" -> "done"
      [] OTHER -> p

\* The method chain of run(): the step that follows each step.
NextPc(p) ==
    CASE p = "default" -> "plugin_opener"
      [] p = "plugin_opener" -> "plugin_shell"
      [] p = "plugin_shell" -> "plugin_http"
      [] p = "plugin_http" -> "invoke_handler"
      [] p = "invoke_handler" -> "run"
      [] p = "run" -> "running"
      [] p = "running" -> "expect"
      [] p = "expect" -> "done"
      [] OTHER -> p

NoResult == [kind |-> "None", err |-> "none"]

Idle == [state |-> "idle", cmd |-> "none", buf |-> <<>>]

Alive == [state |-> "alive", exit |-> "none", msg |-> <<>>]

\* ------------------------------------------------------------------ Init
\* run() has been entered and line 17 has constructed the builder.
Init ==
    /\ pc = NextPc("default")
    /\ builder = Builder_default
    /\ runCalls = 0
    /\ result = NoResult
    /\ process = Alive
    /\ version \in PackageVersions
    /\ calls = [c \in Callers |-> Idle]
    /\ started = 0
    /\ log = <<>>

\* --------------------------------------------------------------- run()
\* line 18
PluginOpener ==
    /\ pc = "plugin_opener"
    /\ builder' = plugin(builder, tauri_plugin_opener)
    /\ pc' = NextPc(pc)
    /\ UNCHANGED <<runCalls, result, process, version, calls, started, log>>

\* line 19
PluginShell ==
    /\ pc = "plugin_shell"
    /\ builder' = plugin(builder, tauri_plugin_shell)
    /\ pc' = NextPc(pc)
    /\ UNCHANGED <<runCalls, result, process, version, calls, started, log>>

\* line 20
PluginHttp ==
    /\ pc = "plugin_http"
    /\ builder' = plugin(builder, tauri_plugin_http)
    /\ pc' = NextPc(pc)
    /\ UNCHANGED <<runCalls, result, process, version, calls, started, log>>

\* line 21
InvokeHandler ==
    /\ pc = "invoke_handler"
    /\ builder' = invoke_handler(builder, generate_handler)
    /\ pc' = NextPc(pc)
    /\ UNCHANGED <<runCalls, result, process, version, calls, started, log>>

\* line 22, the call: the framework builds the application and enters its
\* event loop, in which the call blocks.
RunStart ==
    /\ pc = "run"
    /\ runCalls' = runCalls + 1
    /\ pc' = NextPc(pc)
    /\ UNCHANGED <<builder, result, process, version, calls, started, log>>

\* line 22, the call reports an error: startup failed, Err(e) is returned.
RunFail ==
    /\ pc = "run"
    /\ runCalls' = runCalls + 1
    /\ \E e \in Errors : result' = [kind |-> "Err", err |-> e]
    /\ pc' = "expect"
    /\ UNCHANGED <<builder, process, version, calls, started, log>>

\* line 22, the call returns Ok(()): the event loop has ended. Invocations
\* still in flight die with the application.
RunReturn ==
    /\ pc = "running"
    /\ result' = [kind |-> "Ok", err |-> "none"]
    /\ pc' = NextPc(pc)
    /\ calls' = [c \in Callers |-> Idle]
    /\ UNCHANGED <<builder, runCalls, process, version, started, log>>

\* line 22, the call never returns: the event loop has ended and the
\* framework exits the process itself, with the application's exit status.
RunExit ==
    /\ pc = "running"
    /\ pc' = "exited"
    /\ process' = [state |-> "terminated", exit |-> "success", msg |-> <<>>]
    /\ calls' = [c \in Callers |-> Idle]
    /\ UNCHANGED <<builder, runCalls, result, version, started, log>>

\* An unwrapping that discards the error: run() returns whatever the Result.
ExpectIgnoreErr ==
    /\ pc = "expect"
    /\ pc' = "done"
    /\ UNCHANGED <<builder, runCalls, result, process, version, calls, started, log>>

\* An unwrapping that calls run once more when it reported an error.
ExpectRetry ==
    /\ pc = "expect"
    /\ IF result.kind = "Ok"
         THEN /\ pc' = "done"
              /\ UNCHANGED <<process, result>>
         ELSE IF runCalls < 2
           THEN /\ pc' = "run"
                /\ result' = [kind |-> "None", err |-> "none"]
                /\ UNCHANGED process
           ELSE /\ pc' = "panicked"
                /\ process' = [state |-> "terminated", exit |-> "failure",
                               msg |-> <<EXPECT_MSG, result.err>>]
                /\ UNCHANGED result
    /\ UNCHANGED <<builder, runCalls, version, calls, started, log>>

\* line 23: Result::expect. Ok(()) is unwrapped and run() returns at line
\* 24; Err(e) panics with the message and the error, which ends the process
\* with a failure status.
Expect ==
    /\ pc = "expect"
    /\ IF result.kind = "Ok"
         THEN /\ pc' = NextPc(pc)
              /\ UNCHANGED process
         ELSE /\ pc' = "panicked"
              /\ process' = [state |-> "terminated", exit |-> "failure",
                             msg |-> <<EXPECT_MSG, result.err>>]
    /\ UNCHANGED <<builder, runCalls, result, version, calls, started, log>>

\* ------------------------------------------------------------ commands
InFlight(c) == calls[c].state = "running"

\* The front end invokes a command of the registered handler while the
\* event loop runs.
Invoke(c, cmd) ==
    /\ pc = "running"
    /\ calls[c].state = "idle"
    /\ started < MaxCalls
    /\ cmd \in builder.invoke_handler
    /\ calls' = [calls EXCEPT ![c] = [state |-> "running", cmd |-> cmd, buf |-> <<>>]]
    /\ started' = started + 1
    /\ UNCHANGED <<pc, builder, runCalls, result, process, version, log>>

\* A copy into one buffer shared by all invocations in flight.
CopyShared(c) ==
    /\ pc = "running"
    /\ InFlight(c)
    /\ Len(calls[c].buf) < Len(Dispatch(calls[c].cmd))
    /\ calls' = [d \in Callers |->
                   IF InFlight(d)
                     THEN [calls[d] EXCEPT !.buf =
                             Append(@, Dispatch(calls[c].cmd)[Len(calls[c].buf) + 1])]
                     ELSE calls[d]]
    /\ UNCHANGED <<pc, builder, runCalls, result, process, version, started, log>>

\* The command body copies one more byte of its string into its own String.
Copy(c) ==
    /\ pc = "running"
    /\ InFlight(c)
    /\ Len(calls[c].buf) < Len(Dispatch(calls[c].cmd))
    /\ calls' = [calls EXCEPT ![c].buf = to_string(@, Dispatch(calls[c].cmd))]
    /\ UNCHANGED <<pc, builder, runCalls, result, process, version, started, log>>

\* A return that reports an error outcome to the front end.
ReturnErr(c) ==
    /\ pc = "running"
    /\ InFlight(c)
    /\ Len(calls[c].buf) >= Len(Dispatch(calls[c].cmd))
    /\ log' = Append(log, [cmd |-> calls[c].cmd, ok |-> FALSE,
                           value |-> calls[c].buf,
                           overlap |-> \E d \in Callers \ {c} : InFlight(d)])
    /\ calls' = [calls EXCEPT ![c] = Idle]
    /\ UNCHANGED <<pc, builder, runCalls, result, process, version, started>>

\* A return that unregisters the command it served.
ReturnUnregister(c) ==
    /\ pc = "running"
    /\ InFlight(c)
    /\ Len(calls[c].buf) >= Len(Dispatch(calls[c].cmd))
    /\ log' = Append(log, [cmd |-> calls[c].cmd, ok |-> TRUE,
                           value |-> calls[c].buf,
                           overlap |-> \E d \in Callers \ {c} : InFlight(d)])
    /\ calls' = [calls EXCEPT ![c] = Idle]
    /\ builder' = [builder EXCEPT !.invoke_handler = @ \ {calls[c].cmd}]
    /\ UNCHANGED <<pc, runCalls, result, process, version, started>>

\* The command returns its String; the response is delivered to the front
\* end, which keeps nothing of the call.
Return(c) ==
    /\ pc = "running"
    /\ InFlight(c)
    /\ Len(calls[c].buf) >= Len(Dispatch(calls[c].cmd))
    /\ log' = Append(log, [cmd |-> calls[c].cmd, ok |-> TRUE,
                           value |-> calls[c].buf,
                           overlap |-> \E d \in Callers \ {c} : InFlight(d)])
    /\ calls' = [calls EXCEPT ![c] = Idle]
    /\ UNCHANGED <<pc, builder, runCalls, result, process, version, started>>

Next ==
    \/ PluginOpener
    \/ PluginShell
    \/ PluginHttp
    \/ InvokeHandler
    \/ RunStart
    \/ RunFail
    \/ RunReturn
    \/ RunExit
    \/ Expect
    \/ \E c \in Callers : \E cmd \in {"get_app_version", "get_app_name"} : Invoke(c, cmd)
    \/ \E c \in Callers : Copy(c)
    \/ \E c \in Callers : Return(c)

Spec == Init /\ [][Next]_vars

\* The invocations complete whenever they are given the chance to run.
FairSpec ==
    Spec /\ \A c \in Callers : WF_vars(Copy(c)) /\ WF_vars(Return(c))

\* ------------------------------------------------- strings and versions
Digits == {"0", "1", "2", "3", "4", "5", "6", "7", "8", "9"}

Letters ==
    {"a", "b", "c", "d", "e", "f", "g", "h", "i", "j", "k", "l", "m",
     "n", "o", "p", "q", "r", "s", "t", "u", "v", "w", "x", "y", "z",
     "A", "B", "C", "D", "E", "F", "G", "H", "I", "J", "K", "L", "M",
     "N", "O", "P", "Q", "R", "S", "T", "U", "V", "W", "X", "Y", "Z"}

Chars == Digits \cup Letters \cup {".", "-", "+", " "}

IsString(s) == \A k \in 1..Len(s) : s[k] \in Chars

IsPrefix(p, s) == Len(p) <= Len(s) /\ p = SubSeq(s, 1, Len(p))

\* Index of the first occurrence of ch in s, 0 when there is none.
IndexOf(s, ch) ==
    IF \E k \in 1..Len(s) : s[k] = ch
      THEN CHOOSE k \in 1..Len(s) : s[k] = ch /\ \A j \in 1..(k - 1) : s[j] # ch
      ELSE 0

\* The dot-separated identifiers of s.
RECURSIVE SplitDot(_)
SplitDot(s) ==
    LET k == IndexOf(s, ".")
    IN  IF k = 0 THEN <<s>>
        ELSE <<SubSeq(s, 1, k - 1)>> \o SplitDot(SubSeq(s, k + 1, Len(s)))

IsNumericId(s) ==
    /\ Len(s) > 0
    /\ \A k \in 1..Len(s) : s[k] \in Digits
    /\ Len(s) > 1 => s[1] # "0"

IsIdChars(s) ==
    /\ Len(s) > 0
    /\ \A k \in 1..Len(s) : s[k] \in Digits \cup Letters \cup {"-"}

IsPreReleaseId(s) ==
    /\ IsIdChars(s)
    /\ (\A k \in 1..Len(s) : s[k] \in Digits) => IsNumericId(s)

\* MAJOR.MINOR.PATCH, optionally -PRERELEASE, optionally +BUILD (semver 2.0.0).
IsSemVer(s) ==
    LET plus == IndexOf(s, "+")
        main == IF plus = 0 THEN s ELSE SubSeq(s, 1, plus - 1)
        build == IF plus = 0 THEN <<>> ELSE SubSeq(s, plus + 1, Len(s))
        dash == IndexOf(main, "-")
        core == IF dash = 0 THEN main ELSE SubSeq(main, 1, dash - 1)
        pre == IF dash = 0 THEN <<>> ELSE SubSeq(main, dash + 1, Len(main))
        coreIds == SplitDot(core)
        preIds == SplitDot(pre)
        buildIds == SplitDot(build)
    IN  /\ Len(coreIds) = 3
        /\ \A k \in 1..3 : IsNumericId(coreIds[k])
        /\ dash # 0 => \A k \in 1..Len(preIds) : IsPreReleaseId(preIds[k])
        /\ plus # 0 => \A k \in 1..Len(buildIds) : IsIdChars(buildIds[k])

TriFlowAI == <<"T", "r", "i", "F", "l", "o", "w", " ", "A", "I">>

\* What a command returns when it is the only thing running.
Alone(cmd) == IF cmd = "get_app_name" THEN TriFlowAI ELSE version

Entries == 1..Len(log)

\* ---------------------------------------------------------------- claims
\* C1: every get_app_name call returns exactly "TriFlow AI", whatever calls
\* to get_app_name and get_app_version were made before it.
C1_NameIsTriFlowAI ==
    \A i \in Entries : log[i].cmd = "get_app_name" => log[i].value = TriFlowAI

\* A get_app_name response that follows a get_app_name and a
\* get_app_version response.
C1_Witness ==
    /\ Len(log) = 3
    /\ log[1].cmd = "get_app_name"
    /\ log[2].cmd = "get_app_version"
    /\ log[3].cmd = "get_app_name"

\* C2: any two get_app_version calls of one process return identical
\* strings, the version fixed at build time, whether they are successive
\* or separated by other accessor calls.
C2_VersionIdempotent ==
    \A i, j \in Entries :
        (log[i].cmd = "get_app_version" /\ log[j].cmd = "get_app_version")
            => (log[i].value = log[j].value /\ log[i].value = version)

\* Two get_app_version responses with a get_app_name response in between.
C2_Witness ==
    /\ Len(log) = 3
    /\ log[1].cmd = "get_app_version"
    /\ log[2].cmd = "get_app_name"
    /\ log[3].cmd = "get_app_version"

\* C5: under any interleaving of concurrent callers every call returns the
\* complete value it returns when called alone; no String under
\* construction ever holds anything but a part of its own value.
C5_ConcurrentCallsConsistent ==
    /\ \A i \in Entries : log[i].value = Alone(log[i].cmd)
    /\ \A c \in Callers :
          InFlight(c) => IsPrefix(calls[c].buf, Alone(calls[c].cmd))

\* A response delivered while another caller's call was in flight, and two
\* different commands half way through their copies at the same time.
C5_Witness ==
    /\ \E i \in Entries : log[i].overlap
    /\ \E c, d \in Callers :
          /\ InFlight(c) /\ InFlight(d)
          /\ calls[c].cmd = "get_app_name" /\ calls[d].cmd = "get_app_version"
          /\ Len(calls[c].buf) \in 1..(Len(TriFlowAI) - 1)
          /\ Len(calls[d].buf) \in 1..(Len(version) - 1)

\* C7: what get_app_version returns is a semantic version
\* (MAJOR.MINOR.PATCH with optional pre-release and build suffix) and is the
\* package version baked in at build time.
C7_VersionIsSemVer ==
    \A i \in Entries :
        log[i].cmd = "get_app_version"
            => (IsSemVer(log[i].value) /\ log[i].value = version)

\* A get_app_version response of a build whose version has a pre-release
\* suffix.
C7_Witness ==
    /\ IndexOf(version, "-") # 0
    /\ \E i \in Entries : log[i].cmd = "get_app_version"

AllPlugins == <<"opener", "shell", "http">>

TwoCommands == {"get_app_version", "get_app_name"}

Terminated == process.state = "terminated" /\ process.exit = "failure"

\* C3 as stated: once the run call has been invoked and its Result
\* unwrapped, the application is running or the process has terminated
\* with a failure status; run() is in no other state.
C3_TwoOutcomesOnly ==
    (runCalls > 0 /\ pc # "expect")
        => (pc = "running" \/ (pc = "panicked" /\ Terminated))

\* C3, amended: once the run call has been invoked, the application is
\* running, or the process has terminated with a failure status after a
\* reported error, or the application has run and ended: the process has
\* exited from within the run call, or the run call has returned Ok and
\* run() returns normally. run() never returns normally after a reported
\* error, and the process is left alive without a running application only
\* when the run call returned Ok.
C3_StartupOutcomes ==
    /\ runCalls > 0 =>
          \/ pc = "running" /\ result.kind = "None" /\ process = Alive
          \/ pc = "expect" /\ result.kind \in {"Ok", "Err"} /\ process = Alive
          \/ pc = "panicked" /\ result.kind = "Err" /\ Terminated
          \/ pc = "done" /\ result.kind = "Ok" /\ process = Alive
          \/ pc = "exited" /\ result.kind = "None"
                /\ process.state = "terminated" /\ process.exit = "success"
    /\ result.kind = "Err" => pc \in {"expect", "panicked"}
    /\ (process = Alive /\ pc \notin {"running", "expect"} /\ runCalls > 0)
          => result.kind = "Ok"

\* The run call reported an error and the process has terminated with a
\* failure status.
C3_Witness ==
    pc = "panicked" /\ result.kind = "Err" /\ Terminated /\ runCalls = 1

\* C4: when the run call reports an error, the next thing run() does is
\* panic with "error while running tauri application" and that error, which
\* terminates the process; the run call is invoked at most once and nothing
\* follows the panic.
C4_StartupFailureIsFatal ==
    /\ [](runCalls <= 1)
    /\ [](result.kind = "Err" => pc \in {"expect", "panicked"})
    /\ [](pc = "panicked" =>
            /\ Terminated
            /\ process.msg = <<"error while running tauri application", result.err>>)
    /\ [][(result.kind = "Err" /\ pc = "expect") =>
            (pc' = "panicked" /\ runCalls' = runCalls /\ result' = result)]_vars
    /\ [][pc = "panicked" => pc' = "panicked"]_vars

\* The process terminated by the panic that reports a Setup error of the one
\* run call made.
C4_Witness ==
    /\ pc = "panicked"
    /\ process.msg = <<"error while running tauri application", "Setup">>
    /\ runCalls = 1

\* C6: each invocation of either command completes, as long as the
\* application runs, and what it delivers is a string value, never an
\* error outcome.
C6_CommandsAreTotal ==
    /\ [](\A i \in Entries : log[i].ok /\ IsString(log[i].value))
    /\ \A c \in Callers :
          InFlight(c) ~> (~InFlight(c) \/ pc # "running")

\* Both commands have been invoked and have delivered their values.
C6_Witness ==
    /\ \E i \in Entries : log[i].cmd = "get_app_name" /\ log[i].ok
    /\ \E i \in Entries : log[i].cmd = "get_app_version" /\ log[i].ok
    /\ \A c \in Callers : ~InFlight(c)
    /\ started = 2

\* C8: the opener, shell and HTTP plugins are attached in that order, then
\* the command handler is registered, and only then is the run call made;
\* each is registered exactly once.
C8_RegistrationPrecedesRun ==
    /\ IsPrefix(builder.plugins, AllPlugins)
    /\ builder.handlers <= 1
    /\ builder.handlers = 1 => builder.plugins = AllPlugins
    /\ (runCalls > 0 \/ pc \in {"run", "running"}) =>
          /\ builder.plugins = AllPlugins
          /\ builder.handlers = 1
          /\ builder.invoke_handler = TwoCommands

\* The event loop is running, entered by the one run call.
C8_Witness ==
    pc = "running" /\ runCalls = 1 /\ Len(builder.plugins) = 3

\* C9: once the handler is registered the registered command set is exactly
\* {get_app_version, get_app_name}; nothing is registered before, and no
\* step changes the set while the application runs.
C9_ExposedCommands ==
    /\ [](builder.handlers > 0 => builder.invoke_handler = TwoCommands)
    /\ [](builder.handlers = 0 => builder.invoke_handler = {})
    /\ [][pc = "running" =>
            builder.invoke_handler' = builder.invoke_handler]_vars

\* Responses of both commands have been delivered by the running
\* application.
C9_Witness ==
    /\ pc = "running"
    /\ builder.handlers = 1
    /\ {log[i].cmd : i \in Entries} = TwoCommands

\* C10: a step of a command invocation in the running application changes
\* neither the registered plugins and commands, nor the run-loop state, nor
\* the values the commands return.
C10_AccessorsHaveNoSideEffects ==
    [][(pc = "running" /\ pc' = "running")
          => /\ UNCHANGED <<builder, runCalls, result, process, version>>
             /\ \A cmd \in TwoCommands : Dispatch(cmd)' = Dispatch(cmd)]_vars

\* Three invocations have been served and the application is still running.
C10_Witness ==
    pc = "running" /\ Len(log) = 3 /\ started = 3

====
